---- MODULE Spec2Model ----
(***************************************************************************)
(* Model of the General Strike US snapshot harvesters:                     *)
(*   scrape_strike_data_all.py  (exhaustive harvest, rewrite of the CSV)   *)
(*   scrape_strike_data.py      (weekly-sampled harvest, append-as-you-go) *)
(*   scrape_live_site.py        (one live capture, appended if newer)      *)
(*                                                                         *)
(* Representation of the Python values:                                    *)
(*   - a string whose characters matter (committed, needed) is a sequence  *)
(*     of one-character strings: "1,2" is <<"1", ",", "2">>;                *)
(*   - a 14-digit Wayback timestamp YYYYMMDDhhmmss is the pair             *)
(*     <<YYYYMMDD, hhmmss>> of its first 8 and last 6 digits; the order of *)
(*     pairs below is the lexicographic order of the strings;              *)
(*   - a date string 'YYYY-MM-DD' is the triple <<YYYY, MM, DD>>;           *)
(*   - an optional string (Python None or a str) is a sequence of at most  *)
(*     one string: <<>> is None.                                           *)
(***************************************************************************)
EXTENDS Integers, Sequences, FiniteSets, TLC

VARIABLES
    \* ---- files and backends shared by the harvesters
    csvFile,        \* general_strike_data.csv
    cacheFile,      \* wayback_snapshots.json
    cdxLive,        \* what the CDX API answers when it answers
    backend,        \* snapshot -> outcome of fetching it (deterministic backend)
    \* ---- one harvest process (main of either script)
    pc,             \* position in main
    run,            \* number of the current run
    snapshots,      \* main: snapshots
    idx,            \* main: loop index into snapshots (1-based)
    existing_data,  \* main: existing_data (dict, insertion ordered)
    all_results,    \* main: all_results (dict, insertion ordered)
    new_count,      \* main: new_count / results_count
    skipped_count,  \* main: skipped_count
    \* ---- observation of the run (not program state)
    fileAtStart,    \* csvFile when the current run started
    prevFile,       \* csvFile when the previous run ended
    prevSnapshots,  \* snapshots of the previous run
    prevPc,         \* how the previous run ended
    trace,          \* per candidate of this run: <<index, classification, record>>
    script,         \* which script the runs execute: "all", "weekly" or "live"
    cdxCall,        \* what the last call of fetch_cdx_snapshots met
    lastGood,       \* the answer of the last discovery that was saved, if any
    throttle,       \* "idle", or whether a delay followed the last fetch
    prevSummary,    \* what the previous run reported when it ended
    now,            \* datetime.utcnow() of the last live capture
    \* ---- fetch_google_sheets_data applied to an input
    gRaw, gSheets, gOut, gOutLive, gPc,
    \* ---- bucket sampler applied to an input
    sIn, sOut, sPc,
    \* ---- validity filter applied to an input
    vCommitted, vNeeded, vResult, vPc

harvestVars == <<csvFile, cacheFile, cdxLive, backend, pc, run, snapshots, idx,
                 existing_data, all_results, new_count, skipped_count,
                 fileAtStart, prevFile, prevSnapshots, prevPc, trace,
                 script, cdxCall, lastGood, throttle, prevSummary, now>>
samplerVars == <<sIn, sOut, sPc>>
validityVars == <<vCommitted, vNeeded, vResult, vPc>>
sheetsVars == <<gRaw, gSheets, gOut, gOutLive, gPc>>
vars == <<harvestVars, samplerVars, validityVars, sheetsVars>>

-----------------------------------------------------------------------------
(* Bounds *)

MaxStrLen == 3          \* longest enumerated raw string of the validity filter
MaxSampleLen == 3       \* longest input of the bucket sampler
MaxSnapshots == 3       \* most snapshots the CDX API lists
MaxRuns == 2            \* consecutive harvest runs

-----------------------------------------------------------------------------
(* Strings *)

Digits == {"0", "1", "2", "3", "4", "5", "6", "7", "8", "9"}
Whitespace == {" ", "\t", "\n"}

\* str.replace(ch, '')
Replace(s, ch) == SelectSeq(s, LAMBDA c : c # ch)

RECURSIVE LStrip(_)
LStrip(s) == IF s # <<>> /\ Head(s) \in Whitespace THEN LStrip(Tail(s)) ELSE s

RECURSIVE RStrip(_)
RStrip(s) == IF s # <<>> /\ s[Len(s)] \in Whitespace
             THEN RStrip(SubSeq(s, 1, Len(s) - 1)) ELSE s

\* str.strip()
Strip(s) == RStrip(LStrip(s))

\* str.isdigit(): non-empty and every character a digit
IsDigit(s) == s # <<>> /\ \A i \in 1..Len(s) : s[i] \in Digits

\* '#' in s
Contains(s, ch) == \E i \in 1..Len(s) : s[i] = ch

DigitVal(c) == CASE c = "0" -> 0 [] c = "1" -> 1 [] c = "2" -> 2 [] c = "3" -> 3
                 [] c = "4" -> 4 [] c = "5" -> 5 [] c = "6" -> 6 [] c = "7" -> 7
                 [] c = "8" -> 8 [] c = "9" -> 9

DigitChar(d) == CASE d = 0 -> "0" [] d = 1 -> "1" [] d = 2 -> "2" [] d = 3 -> "3"
                  [] d = 4 -> "4" [] d = 5 -> "5" [] d = 6 -> "6" [] d = 7 -> "7"
                  [] d = 8 -> "8" [] d = 9 -> "9"

\* int(s) of an all-digit string
RECURSIVE ToInt(_)
ToInt(s) == IF s = <<>> THEN 0
            ELSE 10 * ToInt(SubSeq(s, 1, Len(s) - 1)) + DigitVal(s[Len(s)])

RECURSIVE NatToStr(_)
NatToStr(n) == IF n < 10 THEN <<DigitChar(n)>>
               ELSE Append(NatToStr(n \div 10), DigitChar(n % 10))

\* str(n) of an int
IntToStr(n) == IF n < 0 THEN <<"-">> \o NatToStr(0 - n) ELSE NatToStr(n)

-----------------------------------------------------------------------------
(* Validity Filter: is_valid_data *)

\* is_valid_data with the .strip() calls left out
is_valid_data_nostrip(committed, needed) ==
    IF committed = <<>> \/ needed = <<>> THEN FALSE
    ELSE LET committed_clean == Replace(committed, ",")
             needed_clean == Replace(needed, ",")
         IN  /\ IsDigit(committed_clean)
             /\ IsDigit(needed_clean)
             /\ ~Contains(committed, "#")
             /\ ~Contains(needed, "#")

is_valid_data(committed, needed) ==
    IF committed = <<>> \/ needed = <<>> THEN FALSE
    ELSE LET committed_clean == Strip(Replace(committed, ","))
             needed_clean == Strip(Replace(needed, ","))
         IN  /\ IsDigit(committed_clean)
             /\ IsDigit(needed_clean)
             /\ ~Contains(committed, "#")
             /\ ~Contains(needed, "#")

-----------------------------------------------------------------------------
(* Python dict (insertion ordered) as a sequence of <<key, value>> pairs *)

DictHas(d, k) == \E i \in 1..Len(d) : d[i][1] = k
DictGet(d, k) == d[CHOOSE i \in 1..Len(d) : d[i][1] = k][2]
DictSet(d, k, v) == IF DictHas(d, k)
                    THEN [i \in 1..Len(d) |-> IF d[i][1] = k THEN <<k, v>> ELSE d[i]]
                    ELSE Append(d, <<k, v>>)
DictKeys(d) == [i \in 1..Len(d) |-> d[i][1]]
DictValues(d) == [i \in 1..Len(d) |-> d[i][2]]

(* sorted(seq, key=Key): stable, keys are tuples of integers compared as the
   fixed-width digit strings they stand for *)

RECURSIVE TupleLess(_, _)
TupleLess(a, b) == IF a = <<>> \/ b = <<>> THEN a = <<>> /\ b # <<>>
                   ELSE IF a[1] # b[1] THEN a[1] < b[1]
                   ELSE TupleLess(Tail(a), Tail(b))

RECURSIVE InsertPair(_, _)
InsertPair(s, p) == IF s = <<>> THEN <<p>>
                    ELSE IF TupleLess(p[1], Head(s)[1]) THEN <<p>> \o s
                    ELSE <<Head(s)>> \o InsertPair(Tail(s), p)

RECURSIVE SortPairs(_)
SortPairs(s) == IF s = <<>> THEN <<>>
                ELSE InsertPair(SortPairs(SubSeq(s, 1, Len(s) - 1)), s[Len(s)])

\* the values of a sequence of <<key, value>> pairs, in ascending key order
SortedByKey(pairs) ==
    LET sorted == SortPairs(pairs)
    IN  [i \in 1..Len(pairs) |-> sorted[i][2]]

-----------------------------------------------------------------------------
(* Dates: datetime.strptime(date_str, '%Y%m%d'), date.year, date.isocalendar() *)

YearOf(date8) == date8 \div 10000
MonthOf(date8) == (date8 \div 100) % 100
DayOf(date8) == date8 % 100

IsLeap(y) == y % 4 = 0 /\ (y % 100 # 0 \/ y % 400 = 0)

DaysBeforeYear(y) == (y - 1) * 365 + ((y - 1) \div 4) - ((y - 1) \div 100)
                     + ((y - 1) \div 400)

DaysBeforeMonth(y, m) ==
    LET cumulative == <<0, 31, 59, 90, 120, 151, 181, 212, 243, 273, 304, 334>>
    IN  cumulative[m] + (IF m > 2 /\ IsLeap(y) THEN 1 ELSE 0)

\* date.toordinal()
Ordinal(date8) == DaysBeforeYear(YearOf(date8))
                  + DaysBeforeMonth(YearOf(date8), MonthOf(date8)) + DayOf(date8)

\* ordinal of the Monday that starts ISO week 1 of year y
IsoWeek1Monday(y) ==
    LET firstday == DaysBeforeYear(y) + 1
        firstweekday == (firstday + 6) % 7
        week1monday == firstday - firstweekday
    IN  IF firstweekday > 3 THEN week1monday + 7 ELSE week1monday

\* date.isocalendar() as <<ISO year, ISO week, ISO weekday>>
IsoCalendar(date8) ==
    LET year == YearOf(date8)
        today == Ordinal(date8)
        d0 == today - IsoWeek1Monday(year)
    IN  IF d0 < 0
        THEN LET d1 == today - IsoWeek1Monday(year - 1)
             IN  <<year - 1, (d1 \div 7) + 1, (d1 % 7) + 1>>
        ELSE IF d0 \div 7 >= 52 /\ today >= IsoWeek1Monday(year + 1)
        THEN <<year + 1, 1, (d0 % 7) + 1>>
        ELSE <<year, (d0 \div 7) + 1, (d0 % 7) + 1>>

-----------------------------------------------------------------------------
(* Bucket Sampler: sample_weekly_snapshots.  A snapshot is <<timestamp, url>>. *)

\* timestamp[:8]
DateStr(timestamp) == timestamp[1]

\* year_week = (date.year, date.isocalendar()[1])
year_week(timestamp) ==
    <<YearOf(DateStr(timestamp)), IsoCalendar(DateStr(timestamp))[2]>>

\* the loop body with the "not in" test left out: the last snapshot of a week stays
keep_last_of_week(weekly_snapshots, snapshot) ==
    DictSet(weekly_snapshots, year_week(snapshot[1]), snapshot)

\* the loop body: keep only the first snapshot of each week
keep_first_of_week(weekly_snapshots, snapshot) ==
    IF ~DictHas(weekly_snapshots, year_week(snapshot[1]))
    THEN DictSet(weekly_snapshots, year_week(snapshot[1]), snapshot)
    ELSE weekly_snapshots

RECURSIVE weekly_loop(_, _)
weekly_loop(snaps, weekly_snapshots) ==
    IF snaps = <<>> THEN weekly_snapshots
    ELSE weekly_loop(Tail(snaps), keep_first_of_week(weekly_snapshots, Head(snaps)))

\* sorted(weekly_snapshots.values(), key=lambda x: x[0])
sample_weekly_snapshots(snaps) ==
    LET values == DictValues(weekly_loop(snaps, <<>>))
    IN  SortedByKey([i \in 1..Len(values) |-> <<values[i][1], values[i]>>])

-----------------------------------------------------------------------------
(* Records of the dataset.  A row of general_strike_data.csv is
   [date, timestamp, committed, needed, url]; the file is whether it exists,
   whether its first line is the header line, and its data rows. *)

Goal == 11000000

\* formatted_date = f"{date_str[:4]}-{date_str[4:6]}-{date_str[6:8]}"
formatted_date(timestamp) ==
    <<YearOf(DateStr(timestamp)), MonthOf(DateStr(timestamp)), DayOf(DateStr(timestamp))>>

\* wayback_url = f"https://web.archive.org/web/{timestamp}/{url}"
wayback_url(timestamp, url) == <<"https://web.archive.org/web/", timestamp, url>>

\* `if committed and needed` on a pair of optional strings
Truthy(opt) == opt # <<>> /\ opt[1] # <<>>

-----------------------------------------------------------------------------
(* scrape_strike_data_all.py: the extractor.  The outcome of fetching a
   snapshot is [page, sheets, raw]: how the archived page answered, how the
   archived Sheets API answered, and values[0][0] of its answer. *)

\* needed floored at zero
fetch_google_sheets_data_floored(outcome) ==
    IF outcome.sheets # "ok" THEN << <<>>, <<>> >>
    ELSE LET committed == Strip(Replace(outcome.raw, ","))
         IN  IF IsDigit(committed)
             THEN LET committed_int == ToInt(committed)
                      needed_int == IF Goal - committed_int < 0 THEN 0
                                    ELSE Goal - committed_int
                  IN  << <<IntToStr(committed_int)>>, <<IntToStr(needed_int)>> >>
             ELSE << <<>>, <<>> >>

\* returns <<committed, needed>> as optional strings
fetch_google_sheets_data(outcome) ==
    IF outcome.sheets # "ok" THEN << <<>>, <<>> >>
    ELSE LET committed == Strip(Replace(outcome.raw, ","))
         IN  IF IsDigit(committed)
             THEN LET committed_int == ToInt(committed)
                      needed_int == Goal - committed_int
                  IN  << <<IntToStr(committed_int)>>, <<IntToStr(needed_int)>> >>
             ELSE << <<>>, <<>> >>

\* returns the result as a sequence of at most one record (<<>> is None)
scrape_snapshot(timestamp, url, outcome) ==
    IF outcome.page # "ok" THEN <<>>
    ELSE LET cn == fetch_google_sheets_data(outcome)
         IN  IF Truthy(cn[1]) /\ Truthy(cn[2])
             THEN << [date |-> formatted_date(timestamp),
                      timestamp |-> timestamp,
                      committed |-> cn[1][1],
                      needed |-> cn[2][1],
                      url |-> wayback_url(timestamp, url)] >>
             ELSE <<>>

-----------------------------------------------------------------------------
(* scrape_strike_data.py: the extractor.  The outcome of rendering a snapshot
   is [page, committed, needed]: how the page loaded and the two optional
   strings extract_counts found in it. *)

weekly_scrape_snapshot(timestamp, url, outcome) ==
    IF outcome.page # "ok" THEN <<>>
    ELSE IF Truthy(outcome.committed) /\ Truthy(outcome.needed)
         THEN << [date |-> formatted_date(timestamp),
                  timestamp |-> timestamp,
                  committed |-> Replace(outcome.committed[1], ","),
                  needed |-> Replace(outcome.needed[1], ","),
                  url |-> wayback_url(timestamp, url)] >>
         ELSE <<>>

-----------------------------------------------------------------------------
(* scrape_strike_data_all.py: load_existing_data *)

\* `timestamp and len(timestamp) >= 8`: a shorter timestamp is modelled as <<>>
HasDate(timestamp) == Len(timestamp) = 2

RECURSIVE load_rows(_, _)
load_rows(rows, existing) ==
    IF rows = <<>> THEN existing
    ELSE LET row == Head(rows)
         IN  IF ~HasDate(row.timestamp) THEN load_rows(Tail(rows), existing)
             ELSE IF is_valid_data(row.committed, row.needed)
             THEN load_rows(Tail(rows),
                            DictSet(existing, formatted_date(row.timestamp),
                                    [date |-> formatted_date(row.timestamp),
                                     timestamp |-> row.timestamp,
                                     committed |-> row.committed,
                                     needed |-> row.needed,
                                     url |-> row.url]))
             ELSE load_rows(Tail(rows), existing)

\* csv.DictReader takes the first line as the field names: in a file without
\* the header line no row has a 'timestamp' field, and every row is skipped
load_existing_data(file) ==
    IF ~file.exists THEN <<>>
    ELSE IF ~file.header THEN <<>>
    ELSE load_rows(file.rows, <<>>)

-----------------------------------------------------------------------------
(* Inputs *)

\* all sequences over S of length at most n
SeqUpTo(S, n) == UNION {[1..k -> S] : k \in 0..n}

\* the elements of a sequence
Range(s) == {s[i] : i \in 1..Len(s)}

\* "1,234,567" and "#####" (the readings the specification names), a negative
\* number, a letter, tabs and newlines
Str1234567 == <<"1", ",", "2", "3", "4", ",", "5", "6", "7">>
StrHashes == <<"#", "#", "#", "#", "#">>
ExampleStrings == {Str1234567, StrHashes, <<"-", "1", "0">>, <<"1", "a">>,
                   <<"\t", "7", "\n">>}

RawStrings == SeqUpTo({"1", ",", " ", "#"}, MaxStrLen) \cup ExampleStrings

U1 == "http://generalstrikeus.com/"
U2 == "https://generalstrikeus.com/"
U3 == "https://www.generalstrikeus.com/"

\* the sampler example of the specification, a week across the 2024/2025
\* year boundary, and the last days of 2025 (ISO week 1 of 2026)
SamplePool == { <<(<<20241101, 120000>>), U1>>, <<(<<20241103, 90000>>), U2>>,
                <<(<<20241110, 0>>), U3>>, <<(<<20241230, 101500>>), U1>>,
                <<(<<20250102, 101500>>), U2>>, <<(<<20251229, 235959>>), U3>> }

-----------------------------------------------------------------------------
(* Idle values of the parts a specification does not use *)

NoFile == [exists |-> FALSE, header |-> FALSE, rows |-> <<>>]

\* fetch_cdx_snapshots was not called / no run has ended
NoCall == [failure |-> "none", cacheBefore |-> "none"]
NoSummary == [pc |-> "none", printed |-> <<>>, new |-> 0, existing |-> 0]

HarvestIdle ==
    /\ csvFile = NoFile /\ cacheFile = [state |-> "absent", data |-> <<>>]
    /\ cdxLive = <<>> /\ backend = <<>>
    /\ pc = "idle" /\ run = 0 /\ snapshots = <<>> /\ idx = 0
    /\ existing_data = <<>> /\ all_results = <<>>
    /\ new_count = 0 /\ skipped_count = 0
    /\ fileAtStart = NoFile /\ prevFile = NoFile /\ prevSnapshots = <<>>
    /\ prevPc = "none" /\ trace = <<>>
    /\ script = "none" /\ cdxCall = NoCall /\ lastGood = <<>>
    /\ throttle = "idle" /\ prevSummary = NoSummary /\ now = <<0, 0>>

SamplerIdle == sIn = <<>> /\ sOut = <<>> /\ sPc = "idle"

ValidityIdle == vCommitted = <<>> /\ vNeeded = <<>> /\ vResult = FALSE /\ vPc = "idle"

SheetsIdle ==
    gRaw = <<>> /\ gSheets = "none" /\ gOut = <<>> /\ gOutLive = <<>> /\ gPc = "idle"

-----------------------------------------------------------------------------
(* The Validity Filter applied to a pair of raw strings *)

InitValidity ==
    /\ vCommitted \in RawStrings
    /\ vNeeded \in RawStrings
    /\ vResult = FALSE
    /\ vPc = "input"
    /\ HarvestIdle /\ SamplerIdle /\ SheetsIdle

CallIsValidData ==
    /\ vPc = "input"
    /\ vResult' = is_valid_data(vCommitted, vNeeded)
    /\ vPc' = "done"
    /\ UNCHANGED <<vCommitted, vNeeded, harvestVars, samplerVars, sheetsVars>>

NextValidity == CallIsValidData

SpecValidity == InitValidity /\ [][NextValidity]_vars

-----------------------------------------------------------------------------
(* The Bucket Sampler applied to a sequence of snapshots *)

InitSampler ==
    /\ sIn \in SeqUpTo(SamplePool, MaxSampleLen)
    /\ sOut = <<>>
    /\ sPc = "input"
    /\ HarvestIdle /\ ValidityIdle /\ SheetsIdle

CallSampleWeeklySnapshots ==
    /\ sPc = "input"
    /\ sOut' = sample_weekly_snapshots(sIn)
    /\ sPc' = "done"
    /\ UNCHANGED <<sIn, harvestVars, validityVars, sheetsVars>>

NextSampler == CallSampleWeeklySnapshots

SpecSampler == InitSampler /\ [][NextSampler]_vars

-----------------------------------------------------------------------------
(* Inputs of the harvesters *)

Str(n) == IntToStr(n)

\* snapshots the archive may hold: two captures of 2024-11-01, one of
\* 2024-11-03 and one of 2024-11-05
SnapA1 == <<(<<20241101, 120000>>), U1>>
SnapA2 == <<(<<20241101, 180000>>), U1>>
SnapB == <<(<<20241103, 90000>>), U2>>
SnapC == <<(<<20241105, 0>>), U1>>
HarvestPool == {SnapA1, SnapA2, SnapB, SnapC}

\* the CDX API lists captures in ascending timestamp order
SnapshotLists ==
    {l \in SeqUpTo(HarvestPool, MaxSnapshots) :
        \A i \in 1..Len(l) : \A j \in 1..Len(l) : i < j => TupleLess(l[i][1], l[j][1])}

\* the JSON answer of the CDX API: [] or a header row and one row
\* [urlkey, timestamp, original] per capture
CdxHeader == <<"urlkey", <<>>, "original">>
CdxResponse(l) ==
    IF l = <<>> THEN <<>>
    ELSE <<CdxHeader>> \o [i \in 1..Len(l) |-> <<"com,generalstrikeus)/", l[i][1], l[i][2]>>]

\* an answer of an earlier day: the same without its latest capture
OlderCdx(cdx) == IF Len(cdx) <= 2 THEN <<>> ELSE SubSeq(cdx, 1, Len(cdx) - 1)

Row(date8, time6, committed, needed) ==
    [date |-> formatted_date(<<date8, time6>>), timestamp |-> <<date8, time6>>,
     committed |-> committed, needed |-> needed,
     url |-> wayback_url(<<date8, time6>>, U1)]

\* what a weekly-sampled harvest leaves: one row per week, a placeholder among them
FileWeekly == [exists |-> TRUE, header |-> TRUE,
               rows |-> << Row(20241101, 60000, StrHashes, StrHashes),
                           Row(20241105, 60000, Str(3000000), Str(8000000)) >>]

\* what an exhaustive harvest leaves: ascending dates, a reading above the goal
FileAll == [exists |-> TRUE, header |-> TRUE,
            rows |-> << Row(20241101, 60000, Str(1000000), Str(10000000)),
                        Row(20241103, 60000, Str(12000000), Str(0 - 1000000)),
                        Row(20241107, 60000, Str(2000000), Str(9000000)) >>]

InitialFiles == {NoFile, FileWeekly, FileAll}

\* "4,000,000": a reading with thousands separators
Str4Million == <<"4", ",", "0", "0", "0", ",", "0", "0", "0">>

ArchiveOutcome(page, sheets, raw) == [page |-> page, sheets |-> sheets, raw |-> raw]

ArchiveOutcomes ==
    { ArchiveOutcome("timeout", "none", <<>>),
      ArchiveOutcome("status", "none", <<>>),
      ArchiveOutcome("noapi", "none", <<>>),
      ArchiveOutcome("ok", "ok", Str4Million),
      ArchiveOutcome("ok", "ok", Str(12000000)),
      ArchiveOutcome("ok", "ok", StrHashes) }

-----------------------------------------------------------------------------
(* fetch_cdx_snapshots (the same function in both harvesters) *)

DiscoveryFailures == {"request", "status", "json", "open", "dump"}

\* the live path succeeds: the answer is saved and returned
FetchCdxLive ==
    /\ pc = "start"
    /\ cacheFile' = [state |-> "ok", data |-> cdxLive]
    /\ snapshots' = [i \in 1..(Len(cdxLive) - 1) |-> <<cdxLive[i + 1][2], cdxLive[i + 1][3]>>]
    /\ pc' = "discovered"
    /\ cdxCall' = [failure |-> "none", cacheBefore |-> cacheFile.state]
    /\ lastGood' = <<cdxLive>>
    /\ UNCHANGED <<csvFile, cdxLive, backend, run, idx, existing_data, all_results,
                   new_count, skipped_count, fileAtStart, prevFile, prevSnapshots,
                   prevPc, trace, samplerVars, validityVars,
                   sheetsVars, script, throttle, prevSummary, now>>

\* the cache file after the live path failed at step f: json.dump failing
\* leaves the file open('w') truncated, partly written
CacheAfterFailure(f) ==
    IF f = "dump" THEN [state |-> "partial", data |-> <<>>] ELSE cacheFile

\* the live path fails and the cache file is read back
FetchCdxFallback ==
    /\ pc = "start"
    /\ \E f \in DiscoveryFailures :
          /\ CacheAfterFailure(f).state = "ok"
          /\ cacheFile' = CacheAfterFailure(f)
          /\ cdxCall' = [failure |-> f, cacheBefore |-> cacheFile.state]
          /\ LET data == CacheAfterFailure(f).data
             IN  snapshots' = [i \in 1..(Len(data) - 1) |-> <<data[i + 1][2], data[i + 1][3]>>]
    /\ pc' = "discovered"
    /\ UNCHANGED <<csvFile, cdxLive, backend, run, idx, existing_data, all_results,
                   new_count, skipped_count, fileAtStart, prevFile, prevSnapshots,
                   prevPc, trace, samplerVars, validityVars,
                   sheetsVars, script, lastGood, throttle, prevSummary, now>>

\* the failure swallowed: an empty answer returned where there is no cache
FetchCdxReturnsNothing ==
    /\ pc = "start"
    /\ \E f \in DiscoveryFailures :
          /\ CacheAfterFailure(f).state # "ok"
          /\ cacheFile' = CacheAfterFailure(f)
          /\ cdxCall' = [failure |-> f, cacheBefore |-> cacheFile.state]
    /\ snapshots' = <<>>
    /\ pc' = "discovered"
    /\ UNCHANGED <<csvFile, cdxLive, backend, run, idx, existing_data,
                   all_results, new_count, skipped_count, fileAtStart, prevFile,
                   prevSnapshots, prevPc, trace, samplerVars, validityVars,
                   sheetsVars, script, lastGood, throttle, prevSummary, now>>

\* the live path fails and the cache file is absent (FileNotFoundError is
\* re-raised) or unreadable (json.load raises): main ends with the exception
FetchCdxRaises ==
    /\ pc = "start"
    /\ \E f \in DiscoveryFailures :
          /\ CacheAfterFailure(f).state # "ok"
          /\ cacheFile' = CacheAfterFailure(f)
          /\ cdxCall' = [failure |-> f, cacheBefore |-> cacheFile.state]
    /\ pc' = "aborted"
    /\ UNCHANGED <<csvFile, cdxLive, backend, run, snapshots, idx, existing_data,
                   all_results, new_count, skipped_count, fileAtStart, prevFile,
                   prevSnapshots, prevPc, trace, samplerVars, validityVars,
                   sheetsVars, script, lastGood, throttle, prevSummary, now>>

\* the positions at which a run has ended: after the summary ("done"), in
\* "No new data" of the live script ("nonew"), in its sys.exit(1) ("exit1"),
\* or in an exception that left main ("aborted" in discovery, "crashed" in
\* the summary, "persist_failed" in the append of the live script)
Ended == {"done", "nonew", "exit1", "aborted", "crashed", "persist_failed"}

\* the exit status of the process: 0 after main returned or sys.exit(0),
\* 1 after sys.exit(1) or an exception that nothing caught
ExitCode(p) == IF p \in {"done", "nonew"} THEN 0 ELSE 1

\* the numbers of the summary that the run printed, if it came that far
Printed ==
    IF pc = "done" /\ script = "all"
    THEN <<skipped_count, new_count, Len(all_results), Len(snapshots)>>
    ELSE IF pc = "done" /\ script = "weekly"
    THEN <<new_count, Len(snapshots)>>
    ELSE <<>>

\* how the run ended, how many records it extracted, and how many valid
\* entries the file held when it started
RunSummary ==
    [pc |-> pc, printed |-> Printed, new |-> new_count,
     existing |-> Len(load_existing_data(fileAtStart))]

\* the script is started again
NextRun ==
    /\ pc \in Ended
    /\ run < MaxRuns
    /\ run' = run + 1
    /\ pc' = "start"
    /\ prevPc' = pc
    /\ prevFile' = csvFile
    /\ prevSnapshots' = snapshots
    /\ fileAtStart' = csvFile
    /\ snapshots' = <<>> /\ idx' = 0
    /\ existing_data' = <<>> /\ all_results' = <<>>
    /\ new_count' = 0 /\ skipped_count' = 0
    /\ trace' = <<>>
    /\ cdxCall' = NoCall
    /\ throttle' = "idle"
    /\ prevSummary' = RunSummary
    /\ UNCHANGED <<csvFile, cacheFile, cdxLive, backend, samplerVars, validityVars,
                   sheetsVars, script, lastGood, now>>

-----------------------------------------------------------------------------
(* scrape_strike_data_all.py: main *)

\* all_results with the existing valid data left out
seed_nothing(existing) == <<>>

\* all_results = {} followed by `for date, data in existing_data.items()`
seed_all_results(existing) == existing

\* the skip test always false
never_in_existing(existing, date) == FALSE

\* `formatted_date in existing_data`
in_existing(existing, date) == DictHas(existing, date)

\* the dates in insertion order
unsorted_keys(results) == DictKeys(results)

\* sorted(all_results.keys())
sorted_keys(results) ==
    LET keys == DictKeys(results)
    IN  SortedByKey([i \in 1..Len(keys) |-> <<keys[i], keys[i]>>])

\* lines 238-256: load the existing valid data and seed all_results with it
AllLoadExisting ==
    /\ pc = "discovered"
    /\ existing_data' = load_existing_data(csvFile)
    /\ all_results' = seed_all_results(load_existing_data(csvFile))
    /\ new_count' = 0
    /\ skipped_count' = 0
    /\ idx' = 1
    /\ pc' = "scrape"
    /\ cdxCall' = NoCall
    /\ UNCHANGED <<csvFile, cacheFile, cdxLive, backend, run, snapshots, fileAtStart,
                   prevFile, prevSnapshots, prevPc, trace, samplerVars, validityVars,
                   sheetsVars, script, lastGood, throttle, prevSummary, now>>

\* lines 259-269: the date of the candidate is in existing_data
AllSkipExisting ==
    /\ pc = "scrape"
    /\ idx <= Len(snapshots)
    /\ in_existing(existing_data, formatted_date(snapshots[idx][1]))
    /\ skipped_count' = skipped_count + 1
    /\ idx' = idx + 1
    /\ trace' = Append(trace, [snap |-> snapshots[idx], class |-> "skipped",
                               result |-> <<>>, undelayed |-> FALSE])
    /\ UNCHANGED <<csvFile, cacheFile, cdxLive, backend, pc, run, snapshots,
                   existing_data, all_results, new_count, fileAtStart, prevFile,
                   prevSnapshots, prevPc, samplerVars, validityVars,
                   sheetsVars, script, cdxCall, lastGood, throttle, prevSummary, now>>

\* lines 271-278: the candidate is scraped, its result stored, one second slept
AllScrapeSnapshot ==
    /\ pc = "scrape"
    /\ idx <= Len(snapshots)
    /\ ~in_existing(existing_data, formatted_date(snapshots[idx][1]))
    /\ LET result == scrape_snapshot(snapshots[idx][1], snapshots[idx][2],
                                     backend[snapshots[idx]])
       IN  /\ all_results' = IF result # <<>>
                             THEN DictSet(all_results, result[1].date, result[1])
                             ELSE all_results
           /\ new_count' = IF result # <<>> THEN new_count + 1 ELSE new_count
           /\ trace' = Append(trace, [snap |-> snapshots[idx],
                                      class |-> IF result # <<>> THEN "new" ELSE "failed",
                                      result |-> result,
                                      undelayed |-> throttle = "owed"])
    /\ idx' = idx + 1
    /\ throttle' = "slept"
    /\ UNCHANGED <<csvFile, cacheFile, cdxLive, backend, pc, run, snapshots,
                   existing_data, skipped_count, fileAtStart, prevFile,
                   prevSnapshots, prevPc, samplerVars, validityVars,
                   sheetsVars, script, cdxCall, lastGood, prevSummary, now>>

\* line 282: open(output_file, 'w') truncates the file
AllOpenOutput ==
    /\ pc = "scrape"
    /\ idx > Len(snapshots)
    /\ csvFile' = [exists |-> TRUE, header |-> FALSE, rows |-> <<>>]
    /\ pc' = "write"
    /\ UNCHANGED <<cacheFile, cdxLive, backend, run, snapshots, idx, existing_data,
                   all_results, new_count, skipped_count, fileAtStart, prevFile,
                   prevSnapshots, prevPc, trace, samplerVars, validityVars,
                   sheetsVars, script, cdxCall, lastGood, throttle, prevSummary, now>>

\* lines 283-293: the header, the rows in sorted key order, the summary
AllWriteResults ==
    /\ pc = "write"
    /\ LET keys == sorted_keys(all_results)
       IN  csvFile' = [exists |-> TRUE, header |-> TRUE,
                       rows |-> [i \in 1..Len(keys) |-> DictGet(all_results, keys[i])]]
    /\ pc' = "done"
    /\ UNCHANGED <<cacheFile, cdxLive, backend, run, snapshots, idx, existing_data,
                   all_results, new_count, skipped_count, fileAtStart, prevFile,
                   prevSnapshots, prevPc, trace, samplerVars, validityVars,
                   sheetsVars, script, cdxCall, lastGood, throttle, prevSummary, now>>

\* the state before the first run of a harvester whose fetches end in Outcomes
InitHarvest(Outcomes) ==
    /\ \E l \in SnapshotLists :
          /\ cdxLive = CdxResponse(l)
          /\ backend \in [Range(l) -> Outcomes]
    /\ csvFile \in InitialFiles
    /\ cacheFile \in {[state |-> "absent", data |-> <<>>],
                      [state |-> "ok", data |-> OlderCdx(cdxLive)]}
    /\ pc = "start" /\ run = 1 /\ snapshots = <<>> /\ idx = 0
    /\ existing_data = <<>> /\ all_results = <<>>
    /\ new_count = 0 /\ skipped_count = 0
    /\ fileAtStart = csvFile /\ prevFile = NoFile /\ prevSnapshots = <<>>
    /\ prevPc = "none"
    /\ trace = <<>>
    /\ cdxCall = NoCall
    /\ lastGood = IF cacheFile.state = "ok" THEN <<cacheFile.data>> ELSE <<>>
    /\ throttle = "idle" /\ prevSummary = NoSummary /\ now = <<0, 0>>
    /\ SamplerIdle /\ ValidityIdle /\ SheetsIdle

Init == InitHarvest(ArchiveOutcomes) /\ script = "all"

Next ==
    \/ FetchCdxLive
    \/ FetchCdxFallback
    \/ FetchCdxRaises
    \/ AllLoadExisting
    \/ AllSkipExisting
    \/ AllScrapeSnapshot
    \/ AllOpenOutput
    \/ AllWriteResults
    \/ NextRun

Spec == Init /\ [][Next]_vars

-----------------------------------------------------------------------------
(* scrape_strike_data.py: main *)

RenderOutcome(page, committed, needed) ==
    [page |-> page, committed |-> committed, needed |-> needed]

\* "7,000,000" and a text that is no number
Str7Million == <<"7", ",", "0", "0", "0", ",", "0", "0", "0">>
StrLoading == <<"N", "/", "A">>

RenderOutcomes ==
    { RenderOutcome("timeout", <<>>, <<>>),
      RenderOutcome("error", <<>>, <<>>),
      RenderOutcome("ok", <<>>, <<>>),
      RenderOutcome("ok", <<Str4Million>>, <<Str7Million>>),
      RenderOutcome("ok", <<StrHashes>>, <<StrHashes>>),
      RenderOutcome("ok", <<StrLoading>>, <<Str7Million>>) }

\* lines 151-166: sample one snapshot per week, write the header line to the
\* file opened with 'w'
WeeklySampleAndWriteHeader ==
    /\ pc = "discovered"
    /\ snapshots' = sample_weekly_snapshots(snapshots)
    /\ csvFile' = [exists |-> TRUE, header |-> TRUE, rows |-> <<>>]
    /\ new_count' = 0
    /\ idx' = 1
    /\ pc' = "scrape"
    /\ cdxCall' = NoCall
    /\ UNCHANGED <<cacheFile, cdxLive, backend, run, existing_data, all_results,
                   skipped_count, fileAtStart, prevFile, prevSnapshots, prevPc,
                   trace, samplerVars, validityVars,
                   sheetsVars, script, lastGood, throttle, prevSummary, now>>

\* lines 177-186: scrape the candidate and append its result to the file
WeeklyScrapeSnapshot ==
    /\ pc = "scrape"
    /\ idx <= Len(snapshots)
    /\ LET result == weekly_scrape_snapshot(snapshots[idx][1], snapshots[idx][2],
                                            backend[snapshots[idx]])
       IN  /\ csvFile' = IF result # <<>>
                         THEN [csvFile EXCEPT !.rows = Append(@, result[1])]
                         ELSE csvFile
           /\ new_count' = IF result # <<>> THEN new_count + 1 ELSE new_count
           /\ trace' = Append(trace, [snap |-> snapshots[idx],
                                      class |-> IF result # <<>> THEN "new" ELSE "failed",
                                      result |-> result,
                                      undelayed |-> throttle = "owed"])
    /\ idx' = idx + 1
    /\ throttle' = IF backend[snapshots[idx]].page = "ok" THEN "slept" ELSE "owed"
    /\ UNCHANGED <<cacheFile, cdxLive, backend, pc, run, snapshots, existing_data,
                   all_results, skipped_count, fileAtStart, prevFile, prevSnapshots,
                   prevPc, samplerVars, validityVars,
                   sheetsVars, script, cdxCall, lastGood, prevSummary, now>>

\* lines 188-192: the summary; results_count/len(snapshots) raises
\* ZeroDivisionError when there is no snapshot
WeeklySummary ==
    /\ pc = "scrape"
    /\ idx > Len(snapshots)
    /\ pc' = IF Len(snapshots) = 0 THEN "crashed" ELSE "done"
    /\ UNCHANGED <<csvFile, cacheFile, cdxLive, backend, run, snapshots, idx,
                   existing_data, all_results, new_count, skipped_count, fileAtStart,
                   prevFile, prevSnapshots, prevPc, trace, samplerVars, validityVars,
                   sheetsVars, script, cdxCall, lastGood, throttle, prevSummary, now>>

InitWeekly == InitHarvest(RenderOutcomes) /\ script = "weekly"

NextWeekly ==
    \/ FetchCdxLive
    \/ FetchCdxFallback
    \/ FetchCdxRaises
    \/ WeeklySampleAndWriteHeader
    \/ WeeklyScrapeSnapshot
    \/ WeeklySummary
    \/ NextRun

SpecWeekly == InitWeekly /\ [][NextWeekly]_vars

-----------------------------------------------------------------------------
(* scrape_live_site.py.  The outcome of a capture is [page, sheets, raw] as in
   the exhaustive harvester: how the live page answered, how the Sheets API
   answered, and values[0][0] of its answer.  The file of this script is
   'general_strike_data plus-fine-grained.csv'. *)

\* returns <<committed, needed>> as optional strings
live_fetch_google_sheets_data(outcome) ==
    IF outcome.sheets # "ok" THEN << <<>>, <<>> >>
    ELSE LET committed == Strip(Replace(outcome.raw, ","))
         IN  IF IsDigit(committed)
             THEN LET committed_int == ToInt(committed)
                      needed_int == Goal - committed_int
                  IN  << <<IntToStr(committed_int)>>, <<IntToStr(needed_int)>> >>
             ELSE << <<>>, <<>> >>

\* returns the record as a sequence of at most one record; utcnow is the
\* value of datetime.utcnow(), and the url '' is <<>>
scrape_live_site(outcome, utcnow) ==
    IF outcome.page # "ok" THEN <<>>
    ELSE LET cn == live_fetch_google_sheets_data(outcome)
         IN  IF Truthy(cn[1]) /\ Truthy(cn[2])
             THEN << [date |-> formatted_date(utcnow),
                      timestamp |-> utcnow,
                      committed |-> cn[1][1],
                      needed |-> cn[2][1],
                      url |-> <<>>] >>
             ELSE <<>>

\* list(csv.DictReader(f)): the first line gives the field names, so in a
\* file without the header line the first row is consumed as the names and
\* row.get('timestamp') of every other row is None (<<>> here)
live_load_existing_data(file) ==
    IF ~file.exists THEN <<>>
    ELSE IF file.header THEN file.rows
    ELSE [i \in 1..(Len(file.rows) - 1) |-> [file.rows[i + 1] EXCEPT !.timestamp = <<>>]]

\* max() of a non-empty sequence of timestamps
RECURSIVE MaxTimestamp(_)
MaxTimestamp(ts) ==
    IF Len(ts) = 1 THEN ts[1]
    ELSE LET m == MaxTimestamp(Tail(ts))
         IN  IF TupleLess(m, ts[1]) THEN ts[1] ELSE m

\* returns the latest timestamp as an optional value (<<>> is None)
get_latest_timestamp(existing) ==
    IF existing = <<>> THEN <<>>
    ELSE LET with_ts == SelectSeq(existing, LAMBDA row : row.timestamp # <<>>)
             timestamps == [i \in 1..Len(with_ts) |-> with_ts[i].timestamp]
         IN  IF timestamps = <<>> THEN <<>> ELSE <<MaxTimestamp(timestamps)>>

\* `latest_timestamp and new_data['timestamp'] <= latest_timestamp`
not_newer(timestamp, latest) ==
    latest # <<>> /\ (timestamp = latest[1] \/ TupleLess(timestamp, latest[1]))

\* the instants at which a capture may take place: one before the last rows
\* of the initial files, two on 2024-11-08, one on 2024-11-09
LiveTimes == {<<20241105, 50000>>, <<20241108, 120000>>, <<20241108, 180000>>,
              <<20241109, 90000>>}

\* the clock does not go back between two captures
ClockValues == {t \in LiveTimes : t = now \/ TupleLess(now, t)}

\* lines 146-150: the capture fails, sys.exit(1)
LiveScrapeFails ==
    /\ pc = "start"
    /\ \E outcome \in ArchiveOutcomes : \E t \in ClockValues :
          scrape_live_site(outcome, t) = <<>>
    /\ pc' = "exit1"
    /\ UNCHANGED <<csvFile, cacheFile, cdxLive, backend, run, snapshots, idx,
                   existing_data, all_results, new_count, skipped_count, fileAtStart,
                   prevFile, prevSnapshots, prevPc, trace, samplerVars, validityVars,
                   sheetsVars, script, cdxCall, lastGood, throttle, prevSummary, now>>

\* lines 146-159: the capture is not newer than the latest row, sys.exit(0)
LiveNoNewData ==
    /\ pc = "start"
    /\ \E outcome \in ArchiveOutcomes : \E t \in ClockValues :
          LET new_data == scrape_live_site(outcome, t)
          IN  /\ new_data # <<>>
              /\ not_newer(new_data[1].timestamp,
                           get_latest_timestamp(live_load_existing_data(csvFile)))
              /\ now' = t
              /\ trace' = <<[snap |-> <<t, <<>> >>, class |-> "nonew",
                             result |-> new_data, undelayed |-> FALSE]>>
    /\ pc' = "nonew"
    /\ UNCHANGED <<csvFile, cacheFile, cdxLive, backend, run, snapshots, idx,
                   existing_data, all_results, new_count, skipped_count, fileAtStart,
                   prevFile, prevSnapshots, prevPc, samplerVars, validityVars,
                   sheetsVars, script, cdxCall, lastGood, throttle, prevSummary>>

\* lines 146-170: the capture is appended with open(csv_file, 'a'), which
\* creates a missing file; no header line is ever written
LiveAppend ==
    /\ pc = "start"
    /\ \E outcome \in ArchiveOutcomes : \E t \in ClockValues :
          LET new_data == scrape_live_site(outcome, t)
          IN  /\ new_data # <<>>
              /\ ~not_newer(new_data[1].timestamp,
                            get_latest_timestamp(live_load_existing_data(csvFile)))
              /\ now' = t
              /\ csvFile' = [exists |-> TRUE, header |-> csvFile.header,
                             rows |-> Append(csvFile.rows, new_data[1])]
              /\ trace' = <<[snap |-> <<t, <<>> >>, class |-> "new",
                             result |-> new_data, undelayed |-> FALSE]>>
    /\ new_count' = 1
    /\ pc' = "done"
    /\ UNCHANGED <<cacheFile, cdxLive, backend, run, snapshots, idx,
                   existing_data, all_results, skipped_count, fileAtStart,
                   prevFile, prevSnapshots, prevPc, samplerVars, validityVars,
                   sheetsVars, script, cdxCall, lastGood, throttle, prevSummary>>

\* line 163: open(csv_file, 'a') raises (the file cannot be written)
LiveAppendFails ==
    /\ pc = "start"
    /\ \E outcome \in ArchiveOutcomes : \E t \in ClockValues :
          LET new_data == scrape_live_site(outcome, t)
          IN  /\ new_data # <<>>
              /\ ~not_newer(new_data[1].timestamp,
                            get_latest_timestamp(live_load_existing_data(csvFile)))
              /\ now' = t
              /\ trace' = <<[snap |-> <<t, <<>> >>, class |-> "unwritten",
                             result |-> new_data, undelayed |-> FALSE]>>
    /\ pc' = "persist_failed"
    /\ UNCHANGED <<csvFile, cacheFile, cdxLive, backend, run, snapshots, idx,
                   existing_data, all_results, new_count, skipped_count, fileAtStart,
                   prevFile, prevSnapshots, prevPc, samplerVars, validityVars,
                   sheetsVars, script, cdxCall, lastGood, throttle, prevSummary>>

\* the state before the first capture
InitLive ==
    /\ csvFile \in InitialFiles
    /\ cacheFile = [state |-> "absent", data |-> <<>>]
    /\ cdxLive = <<>> /\ backend = <<>>
    /\ pc = "start" /\ run = 1 /\ snapshots = <<>> /\ idx = 0
    /\ existing_data = <<>> /\ all_results = <<>>
    /\ new_count = 0 /\ skipped_count = 0
    /\ fileAtStart = csvFile /\ prevFile = NoFile /\ prevSnapshots = <<>>
    /\ prevPc = "none"
    /\ trace = <<>>
    /\ script = "live" /\ cdxCall = NoCall /\ lastGood = <<>>
    /\ throttle = "idle" /\ prevSummary = NoSummary /\ now = <<0, 0>>
    /\ SamplerIdle /\ ValidityIdle /\ SheetsIdle

NextLive ==
    \/ LiveScrapeFails
    \/ LiveNoNewData
    \/ LiveAppend
    \/ LiveAppendFails
    \/ NextRun

SpecLive == InitLive /\ [][NextLive]_vars

-----------------------------------------------------------------------------
(* fetch_google_sheets_data (of the exhaustive harvester and of the live
   script) applied to an answer of the Sheets API *)

\* readings at, around and above the goal, with separators, with whitespace
\* around and inside, with leading zeros
SheetReadings ==
    RawStrings \cup
    { <<"4", ",", "0", "0", "0", ",", "0", "0", "0">>,
      <<" ", "4", "0", "0", "0", "0", "0", "0", "\n">>,
      <<"4", " ", "0", "0", "0", " ", "0", "0", "0">>,
      <<"0">>, <<"0", "0", "7">>,
      IntToStr(Goal - 1), IntToStr(Goal), IntToStr(Goal + 1), IntToStr(12000000),
      <<"1", "2", ",", "0", "0", "0", ",", "0", "0", "0">> }

\* how the Sheets API answers: 200 with values, another status, 200 without
\* 'values', or an exception of the request
SheetsAnswers == {"ok", "status", "novalues", "error"}

InitSheets ==
    /\ gRaw \in SheetReadings
    /\ gSheets \in SheetsAnswers
    /\ gOut = <<>> /\ gOutLive = <<>>
    /\ gPc = "input"
    /\ HarvestIdle /\ SamplerIdle /\ ValidityIdle

CallFetchGoogleSheetsData ==
    /\ gPc = "input"
    /\ gOut' = fetch_google_sheets_data([page |-> "ok", sheets |-> gSheets, raw |-> gRaw])
    /\ gOutLive' = live_fetch_google_sheets_data([page |-> "ok", sheets |-> gSheets,
                                                  raw |-> gRaw])
    /\ gPc' = "done"
    /\ UNCHANGED <<gRaw, gSheets, harvestVars, samplerVars, validityVars>>

NextSheets == CallFetchGoogleSheetsData

SpecSheets == InitSheets /\ [][NextSheets]_vars

-----------------------------------------------------------------------------
(* Any script: the runs of one behaviour all execute the same script *)

InitModes == Init \/ InitWeekly \/ InitLive

NextModes ==
    \/ script = "all" /\ Next
    \/ script = "weekly" /\ NextWeekly
    \/ script = "live" /\ NextLive

SpecModes == InitModes /\ [][NextModes]_vars

-----------------------------------------------------------------------------
(* Claims about the Validity Filter *)

\* s with its commas removed is: whitespace, then one or more digits, then whitespace
NumericAfterCleaning(s) ==
    LET t == Replace(s, ",")
    IN  \E a \in 1..Len(t) : \E b \in a..Len(t) :
            \A i \in 1..Len(t) : IF a <= i /\ i <= b THEN t[i] \in Digits
                                 ELSE t[i] \in Whitespace

\* C5: is_valid_data(committed, needed) is true exactly when both strings, with
\* commas and surrounding whitespace removed, are non-empty and all digits and
\* neither original string contains '#'; "1,234,567" is valid, "#####" is not.
C5_ValidityFilter ==
    vPc = "done" =>
        /\ vResult <=> ( /\ NumericAfterCleaning(vCommitted)
                         /\ NumericAfterCleaning(vNeeded)
                         /\ \A i \in 1..Len(vCommitted) : vCommitted[i] # "#"
                         /\ \A i \in 1..Len(vNeeded) : vNeeded[i] # "#" )
        /\ (vCommitted = Str1234567 /\ vNeeded = Str1234567 => vResult)
        /\ (vCommitted = StrHashes \/ vNeeded = StrHashes => ~vResult)

\* a reading with thousands separators and surrounding whitespace is accepted
C5_Witness ==
    /\ vPc = "done"
    /\ vCommitted = Str1234567
    /\ vNeeded = <<" ", "1", ",">>
    /\ vResult

-----------------------------------------------------------------------------
(* Claims about the Bucket Sampler *)

IsAscending(snaps) ==
    \A i \in 1..Len(snaps) : \A j \in 1..Len(snaps) :
        i < j => ~TupleLess(snaps[j][1], snaps[i][1])

\* the (calendar year, ISO week number) keys of the input
InputKeys == {year_week(x[1]) : x \in Range(sIn)}

\* exactly one output snapshot per key of the input, and nothing else
OnePerKey ==
    /\ Range(sOut) \subseteq Range(sIn)
    /\ \A k \in InputKeys :
          Cardinality({i \in 1..Len(sOut) : year_week(sOut[i][1]) = k}) = 1

\* the snapshot kept for a key has the minimum timestamp of the key
MinimumOfKey ==
    \A i \in 1..Len(sOut) : \A x \in Range(sIn) :
        year_week(x[1]) = year_week(sOut[i][1]) => ~TupleLess(x[1], sOut[i][1])

SamplerExampleIn == << <<(<<20241101, 120000>>), U1>>, <<(<<20241103, 90000>>), U2>>,
                       <<(<<20241110, 0>>), U3>> >>
SamplerExampleOut == << <<(<<20241101, 120000>>), U1>>, <<(<<20241110, 0>>), U3>> >>

\* C8 as stated: for every input sequence, one snapshot per (year, ISO week)
\* key, the one kept being the minimum timestamp of its key.
C8_AnyOrder ==
    sPc = "done" =>
        /\ OnePerKey
        /\ MinimumOfKey
        /\ (sIn = SamplerExampleIn => sOut = SamplerExampleOut)

\* C8 amended: for every input sequence in ascending timestamp order, one
\* snapshot per (year, ISO week) key, the one kept being the minimum timestamp
\* of its key; in any order, one snapshot per key and the example's result.
C8_AscendingInput ==
    sPc = "done" =>
        /\ OnePerKey
        /\ (IsAscending(sIn) => MinimumOfKey)
        /\ (sIn = SamplerExampleIn => sOut = SamplerExampleOut)

\* an ascending input with two snapshots of one week has been sampled
C8_Witness ==
    /\ sPc = "done"
    /\ sIn = SamplerExampleIn
    /\ sOut = SamplerExampleOut

\* ordinal of the Monday of the ISO week (Monday to Sunday) holding the date
MondayOf(date8) == Ordinal(date8) - ((Ordinal(date8) + 6) % 7)

\* C9: no two snapshots of the output fall in the same ISO week (the same
\* Monday-to-Sunday span), year boundaries included.
C9_OnePerIsoWeek ==
    sPc = "done" =>
        \A i \in 1..Len(sOut) : \A j \in 1..Len(sOut) :
            i # j => MondayOf(sOut[i][1][1]) # MondayOf(sOut[j][1][1])

\* C21: for every input sorted ascending by timestamp, every ISO week (the
\* Monday-to-Sunday span) that holds a snapshot of the input holds a snapshot
\* of the output: no week loses all its snapshots to a snapshot of another
\* week
C21_EveryWeekRepresented ==
    (sPc = "done" /\ IsAscending(sIn)) =>
        \A x \in Range(sIn) :
            \E i \in 1..Len(sOut) : MondayOf(sOut[i][1][1]) = MondayOf(x[1][1])

-----------------------------------------------------------------------------
(* Claims about the exhaustive harvest (scrape_strike_data_all.py) *)

\* the rows of a file that load_existing_data accepts
ValidRows(file) ==
    {i \in 1..Len(file.rows) :
        /\ HasDate(file.rows[i].timestamp)
        /\ is_valid_data(file.rows[i].committed, file.rows[i].needed)}

\* the dates of the rows of a file
RowDates(file) == {file.rows[i].date : i \in 1..Len(file.rows)}

\* the reading the Sheets API returns for a snapshot passes the Validity Filter
YieldsValidReading(snap) ==
    LET r == scrape_snapshot(snap[1], snap[2], backend[snap])
    IN  r # <<>> /\ is_valid_data(r[1].committed, r[1].needed)

\* C1: a valid record for date D in the file when the run starts is in the
\* file when the run ends, with the same timestamp, committed, needed and url,
\* whatever the candidates of the run return for D.
C1_NoOverwrite ==
    pc = "done" =>
        \A i \in ValidRows(fileAtStart) :
            \E j \in 1..Len(csvFile.rows) :
                /\ csvFile.rows[j].date = formatted_date(fileAtStart.rows[i].timestamp)
                /\ csvFile.rows[j].timestamp = fileAtStart.rows[i].timestamp
                /\ csvFile.rows[j].committed = fileAtStart.rows[i].committed
                /\ csvFile.rows[j].needed = fileAtStart.rows[i].needed
                /\ csvFile.rows[j].url = fileAtStart.rows[i].url
                /\ \A k \in 1..Len(csvFile.rows) :
                      csvFile.rows[k].date = csvFile.rows[j].date => k = j

\* a run has ended whose candidate for a date valid in the file returned a
\* valid reading with other values
C1_Witness ==
    /\ pc = "done"
    /\ \E i \in ValidRows(fileAtStart) : \E k \in 1..Len(snapshots) :
          /\ formatted_date(snapshots[k][1]) = formatted_date(fileAtStart.rows[i].timestamp)
          /\ YieldsValidReading(snapshots[k])
          /\ scrape_snapshot(snapshots[k][1], snapshots[k][2],
                             backend[snapshots[k]])[1].committed
             # fileAtStart.rows[i].committed

\* C2: when several candidates of one run map to a date that is not in the
\* store at run start and more than one yields a valid reading, the record
\* persisted for the date is the one of the first such candidate.
C2_FirstValidWins ==
    pc = "done" =>
        \A i \in 1..Len(snapshots) : \A j \in 1..Len(snapshots) :
            ( /\ i < j
              /\ formatted_date(snapshots[i][1]) = formatted_date(snapshots[j][1])
              /\ ~DictHas(existing_data, formatted_date(snapshots[i][1]))
              /\ YieldsValidReading(snapshots[i])
              /\ YieldsValidReading(snapshots[j])
              /\ \A h \in 1..(i - 1) :
                    formatted_date(snapshots[h][1]) = formatted_date(snapshots[i][1])
                        => ~YieldsValidReading(snapshots[h]) )
            => \E r \in 1..Len(csvFile.rows) :
                  /\ csvFile.rows[r].date = formatted_date(snapshots[i][1])
                  /\ csvFile.rows[r].timestamp = snapshots[i][1]

\* C3: two runs in a row that both complete, with the same discovery result
\* and the same outcome per snapshot, leave the same file.
C3_Idempotence ==
    (run >= 2 /\ pc = "done" /\ prevPc = "done" /\ snapshots = prevSnapshots)
        => csvFile = prevFile

\* the second run has ended after skipping one candidate and fetching another
C3_Witness ==
    /\ run >= 2 /\ pc = "done" /\ prevPc = "done" /\ snapshots = prevSnapshots
    /\ skipped_count > 0
    /\ new_count > 0
    /\ csvFile = prevFile

\* C4: a candidate whose date has a record in the file the previous run
\* persisted is skipped, never fetched, whatever committed the record holds.
C4_NoRefetch ==
    (run >= 2 /\ prevPc = "done") =>
        \A i \in 1..Len(trace) :
            formatted_date(trace[i].snap[1]) \in RowDates(prevFile)
                => trace[i].class = "skipped"

\* C6: every record of the file a run persisted passes the Validity Filter,
\* and a reading the filter rejects is neither merged nor counted as new.
C6_OnlyValidStored ==
    /\ pc = "done" =>
          \A i \in 1..Len(csvFile.rows) :
              is_valid_data(csvFile.rows[i].committed, csvFile.rows[i].needed)
    /\ \A i \in 1..Len(trace) :
          trace[i].class = "new"
              => is_valid_data(trace[i].result[1].committed, trace[i].result[1].needed)

\* the dates 2024-11-01, 2024-11-03, 2024-11-05
Date01 == <<2024, 11, 1>>
Date03 == <<2024, 11, 3>>
Date05 == <<2024, 11, 5>>

\* C10: the file a run persisted is the header row and data rows in strictly
\* ascending date order; insertions for 2024-11-05, 2024-11-01, 2024-11-03 are
\* written as 2024-11-01, 2024-11-03, 2024-11-05.
C10_SortedPersist ==
    pc = "done" =>
        /\ csvFile.exists /\ csvFile.header
        /\ \A i \in 1..Len(csvFile.rows) : \A j \in 1..Len(csvFile.rows) :
              i < j => TupleLess(csvFile.rows[i].date, csvFile.rows[j].date)
        /\ Len(csvFile.rows) = Len(all_results)
        /\ (DictKeys(all_results) = <<Date05, Date01, Date03>>
              => [i \in 1..3 |-> csvFile.rows[i].date] = <<Date01, Date03, Date05>>)

\* a run has ended whose store received 2024-11-05, 2024-11-01, 2024-11-03 in
\* that order
C10_Witness ==
    /\ pc = "done"
    /\ DictKeys(all_results) = <<Date05, Date01, Date03>>

-----------------------------------------------------------------------------
(* Claims about the weekly-sampled harvest (scrape_strike_data.py) *)

\* an extracted string that holds the placeholder character or is no number
PlaceholderOrNonNumeric(opt) ==
    opt # <<>> /\ (Contains(opt[1], "#") \/ ~NumericAfterCleaning(opt[1]))

\* C7: a snapshot whose extracted committed or needed string contains '#' or
\* is otherwise non-numeric yields no record, and no row of it is appended to
\* the dataset file.
C7_PlaceholdersDiscarded ==
    /\ \A i \in 1..Len(trace) :
          ( \/ PlaceholderOrNonNumeric(backend[trace[i].snap].committed)
            \/ PlaceholderOrNonNumeric(backend[trace[i].snap].needed) )
              => trace[i].result = <<>>
    /\ pc \in {"scrape", "done"} =>
          \A r \in 1..Len(csvFile.rows) :
              /\ ~Contains(csvFile.rows[r].committed, "#")
              /\ ~Contains(csvFile.rows[r].needed, "#")
              /\ IsDigit(csvFile.rows[r].committed)
              /\ IsDigit(csvFile.rows[r].needed)

-----------------------------------------------------------------------------
(* Claims about discovery *)

\* the snapshot set that main builds from a CDX answer
SnapshotsOf(data) == [i \in 1..(Len(data) - 1) |-> <<data[i + 1][2], data[i + 1][3]>>]

\* C11: whenever fetch_cdx_snapshots fails at a step of its live path
\* (request, status check, JSON decoding, opening or writing the cache file)
\* and an earlier discovery succeeded, the call returns exactly the snapshot
\* set of the last successful discovery
C11_FallbackToLastDiscovery ==
    (cdxCall.failure # "none" /\ lastGood # <<>>)
        => (pc = "discovered" /\ snapshots = SnapshotsOf(lastGood[1]))

\* C12: when the live path of discovery fails and no cache file exists, the
\* failure leaves fetch_cdx_snapshots and ends the run of either harvester
\* before any candidate is fetched, with the dataset file as it was when the
\* run started
C12_FatalAndHarmless ==
    (cdxCall.failure # "none" /\ cdxCall.cacheBefore = "absent")
        => (pc = "aborted" /\ trace = <<>> /\ csvFile = fileAtStart)

\* the weekly harvest aborted so, with candidates listed and records on file
C12_Witness ==
    /\ script = "weekly"
    /\ cdxCall.failure # "none" /\ cdxCall.cacheBefore = "absent"
    /\ pc = "aborted"
    /\ Len(cdxLive) > 1
    /\ csvFile = FileAll

-----------------------------------------------------------------------------
(* Claims about the end of a run *)

\* C13: whatever the candidate list (the empty list too) and whatever the
\* outcomes of the candidates, a harvest run of either script is never ended
\* by an exception of its candidate loop or of its summary, and a run that
\* has printed its summary has visited every candidate, in order
C13_CandidateFailuresNonFatal ==
    /\ pc # "crashed"
    /\ pc = "done" => /\ Len(trace) = Len(snapshots)
                      /\ \A i \in 1..Len(trace) : trace[i].snap = snapshots[i]

\* C14: in every mode a run ends with a non-zero exit status only when
\* discovery is unavailable or the dataset cannot be written; a candidate
\* whose fetch or extraction failed never makes the run end so
C14_FailureOnlyForDiscoveryOrPersistence ==
    (pc \in Ended /\ ExitCode(pc) # 0) => pc \in {"aborted", "persist_failed"}

\* what a run shows when it ends: its exit status, the report it ends with,
\* and the numbers of that report
OutcomeOf(summary) == <<ExitCode(summary.pc), summary.pc, summary.printed>>

\* the run ended in its final report, not in an exception or in sys.exit(1)
EndedInReport(summary) == summary.pc \in {"done", "nonew"}

\* C15: a run that extracts nothing and starts with no valid entry on file
\* ends with an outcome (exit status, final report) different from the
\* outcome of a run that started with valid entries on file and extracted
\* nothing new; here the two runs are the previous and the current one, and
\* both ended in their final report
C15_NoDataDistinct ==
    ( /\ EndedInReport(prevSummary) /\ EndedInReport(RunSummary)
      /\ prevSummary.new = 0 /\ prevSummary.existing > 0
      /\ RunSummary.new = 0 /\ RunSummary.existing = 0 )
        => OutcomeOf(RunSummary) # OutcomeOf(prevSummary)

-----------------------------------------------------------------------------
(* Claims about the derived field *)

\* the integer a decimal string with an optional minus sign denotes
SignedValue(s) == IF s # <<>> /\ Head(s) = "-" THEN 0 - ToInt(Tail(s)) ELSE ToInt(s)

\* the pair returned holds two strings, committed the reading and needed
\* the goal minus it, whatever its sign
DerivedFrom(cn, raw) ==
    /\ cn[1] # <<>> /\ cn[2] # <<>>
    /\ SignedValue(cn[1][1]) = ToInt(Strip(Replace(raw, ",")))
    /\ SignedValue(cn[2][1]) = 11000000 - SignedValue(cn[1][1])
    /\ SignedValue(cn[1][1]) + SignedValue(cn[2][1]) = 11000000
    /\ SignedValue(cn[1][1]) > 11000000 => Head(cn[2][1]) = "-"

C22_SummaryConsistent ==
    (script = "all" /\ pc = "done") =>
        /\ Printed[3] = Len(existing_data) + Printed[2]
        /\ Printed[1] + Printed[2] <= Printed[4]

-----------------------------------------------------------------------------
(* Claims about the dataset file during a run *)

\* the file that the rewrite of the exhaustive harvest produces when complete
CompleteRewrite ==
    LET keys == sorted_keys(all_results)
    IN  [exists |-> TRUE, header |-> TRUE,
         rows |-> [i \in 1..Len(keys) |-> DictGet(all_results, keys[i])]]

\* C17: at every point of an exhaustive harvest run whose dataset file held
\* records when it started, a reader of the file sees either the complete
\* old dataset or the complete new one, never an empty, header-only or
\* partly written file
C17_AtomicPersist ==
    (script = "all" /\ fileAtStart.rows # <<>>)
        => \/ csvFile = fileAtStart
           \/ pc = "done" /\ csvFile = CompleteRewrite

\* C18: every valid record in the dataset file when a weekly-sampled harvest
\* run starts is in the file, unchanged, at every point of the run and after
\* it, whether or not the run extracts anything
C18_WeeklyKeepsRecords ==
    script = "weekly" =>
        \A i \in ValidRows(fileAtStart) :
            \E j \in 1..Len(csvFile.rows) : csvFile.rows[j] = fileAtStart.rows[i]

-----------------------------------------------------------------------------
(* Claims about the live script *)

\* C19: after any sequence of live-capture runs the dataset file (here one
\* that starts with its header line) has at most one data row per date, also
\* when two captures succeed on the same calendar day
C19_OneRowPerDate ==
    (script = "live" /\ csvFile.header) =>
        \A i \in 1..Len(csvFile.rows) : \A j \in 1..Len(csvFile.rows) :
            csvFile.rows[i].date = csvFile.rows[j].date => i = j

\* C23: after a live-capture run that appended its record, whatever the
\* file was before (absent too), the next load of the file returns the
\* record as a data row, get_latest_timestamp returns its timestamp, and a
\* capture whose timestamp is not greater is rejected as not newer
C23_AppendReadableBack ==
    (script = "live" /\ pc = "done") =>
        LET appended == trace[1].result[1]
            loaded == live_load_existing_data(csvFile)
        IN  /\ \E i \in 1..Len(loaded) : loaded[i] = appended
            /\ get_latest_timestamp(loaded) = <<appended.timestamp>>
            /\ not_newer(appended.timestamp, get_latest_timestamp(loaded))

-----------------------------------------------------------------------------
(* Claims about rate limiting *)

\* C20: in every harvest run a delay step lies between the end of one
\* candidate's fetch and the start of the next candidate's fetch, whatever
\* the outcome of the first (success, timeout, error, non-200 status): no
\* fetch starts while the fetch before it has not been followed by a delay
C20_DelayBetweenFetches ==
    \A i \in 1..Len(trace) : ~trace[i].undelayed
====
